---- MODULE Spec2Model ----
(***************************************************************************)
(* Model of apps/src/openni_fast_mesh.cpp: the hand-off of a point cloud   *)
(* and its mesh between the grabber thread (OpenNIFastMesh::cloud_cb) and  *)
(* the visualization thread (OpenNIFastMesh::viz_cb).                      *)
(*                                                                         *)
(* Each statement of the two handlers that touches shared state is one     *)
(* step, so that the statements viz_cb executes without holding mtx_       *)
(* (line 105, line 111) interleave with the critical section of cloud_cb.  *)
(* The unlocked swap of line 111 races with the assignment of line 98; it  *)
(* is modelled as a read of cloud_ followed by a write of cloud_, and any  *)
(* step of cloud_cb may fall between the two.                              *)
(*                                                                         *)
(* FPS_CALC (lines 52-64, used at lines 83 and 115) only counts calls in   *)
(* function-static variables that neither handler reads; the steps of the  *)
(* handlers leave its counters alone, and FpsSpec runs the macro at its     *)
(* two call sites.  main and run () are the steps of ProgSpec, which       *)
(* starts and stops the two handlers; Spec and LiveSpec are the handlers    *)
(* while run () sits in its polling loop.                                  *)
(***************************************************************************)
EXTENDS Integers, FiniteSets, Sequences, TLC

\* Number of distinct frames the grabber delivers (frame ids 1..MaxFrames).
MaxFrames == 3

Frames == 1 .. MaxFrames

\* A default-constructed CloudConstPtr (line 154, line 110).
NullCloud == 0

\* A default-constructed pcl::PolygonMesh::Ptr (line 156).
NullMesh == [kind |-> "null", of |-> 0]

\* The mesh_ of line 87: a new, empty pcl::PolygonMesh.
EmptyMesh == [kind |-> "empty", of |-> 0]

\* Lines 90-95: the mesh OrganizedFastMesh::reconstruct writes for cloud c.
Reconstruct(c) == [kind |-> "mesh", of |-> c]

VARIABLES
  mtx_,        \* boost::mutex mtx_: "free", "capture" or "viz" (the holder)
  cloud_,      \* CloudConstPtr cloud_: a frame id or NullCloud
  mesh_,       \* pcl::PolygonMesh::Ptr mesh_
  vertices_,   \* vertices_: "null" or "empty" (it is only ever reset)
  new_cloud_,  \* bool new_cloud_
  shapes,      \* the shapes the PCLVisualizer holds
  pc_c,        \* position of the grabber thread in cloud_cb
  cloud,       \* the argument of the running cloud_cb
  was_pending, \* the branch cloud_cb took at line 85
  mesh_entry,  \* mesh_ when the running cloud_cb acquired mtx_
  pc_v,        \* position of the visualization thread in viz_cb
  temp_cloud,  \* the local temp_cloud of viz_cb
  swap_tmp,    \* the value of cloud_ read by the swap of line 111
  nframes,     \* frames delivered by the grabber so far
  pend,        \* frames whose cloud_cb set new_cloud_ since it was last cleared
  seen,        \* pend as it was when the running viz_cb saw new_cloud_ true
  dropped,     \* frames delivered to cloud_cb while new_cloud_ was true
  meshed,      \* the meshes line 95 has reconstructed so far
  rendered,    \* the meshes line 121 has shown so far
  rerendered,  \* the meshes line 121 has shown more than once
  fps_count,   \* FPS_CALC: static unsigned count, one per call site
  fps_reports, \* FPS_CALC: rate reports printed so far, per call site
  fps_calls,   \* FPS_CALC: invocations so far, per call site
  pc_m,        \* position of the main thread in main and run
  argv,        \* the command-line arguments after the program name
  rgb,         \* whether the device provides the point_cloud_rgb callback
  arg,         \* std::string arg of main
  exit_code,   \* the value main returned, or NoExit
  usage_lines, \* what usage has printed, or NoUsage
  opened,      \* the device ids OpenNIGrabber objects were constructed with
  point_type,  \* the PointType OpenNIFastMesh was instantiated with
  device_id_,  \* OpenNIFastMesh::device_id_
  registered,  \* the callbacks registered so far
  source,      \* the grabber of run: "none", "created", "started", "stopped"
  starts,      \* calls of interface->start ()
  stops,       \* calls of interface->stop ()
  viewer       \* the CloudViewer: "none", "running", "stopped"

shared  == <<cloud_, mesh_, vertices_, new_cloud_>>
capture == <<pc_c, cloud, was_pending, mesh_entry, nframes>>
render  == <<pc_v, temp_cloud, swap_tmp, shapes>>
history == <<pend, seen, dropped>>
shown   == <<meshed, rendered, rerendered>>
fps     == <<fps_count, fps_reports, fps_calls>>
prog    == <<pc_m, argv, rgb, arg, exit_code, usage_lines, opened,
             point_type, device_id_, registered, source, starts, stops, viewer>>
handoff == <<mtx_, shared, capture, render, history, shown>>
vars    == <<handoff, fps, prog>>

Min(S) == CHOOSE x \in S : \A y \in S : x <= y
Max(S) == CHOOSE x \in S : \A y \in S : x >= y

----------------------------------------------------------------------------
\* PCLVisualizer::removeShape (id): the shape of that name is removed.
RemoveShape(ss, id) == {s \in ss : s.id # id}

\* PCLVisualizer::addPolygonMesh (mesh, id): a shape of that name is added.
AddPolygonMesh(ss, m, id) == ss \cup {[id |-> id, mesh |-> m, rep |-> "surface"]}

\* PCLVisualizer::setShapeRenderingProperties (REPRESENTATION, WIREFRAME, id).
SetWireframe(ss, id) ==
  {IF s.id = id THEN [s EXCEPT !.rep = "wireframe"] ELSE s : s \in ss}

Surfaces == {s \in shapes : s.id = "surface"}

----------------------------------------------------------------------------
\* No exit status yet, nothing printed yet.
NoExit == -1
NoUsage == -1

\* FPS_CALC reports every ReportEvery-th invocation (line 57).
ReportEvery == 100

\* The two call sites of FPS_CALC (lines 83 and 115).
Sites == {"computation", "visualization"}

\* Lines 55-56: the statics of FPS_CALC before its first invocation.
FpsInit ==
  /\ fps_count = [w \in Sites |-> 0]
  /\ fps_reports = [w \in Sites |-> 0]
  /\ fps_calls = [w \in Sites |-> 0]

\* run () in its polling loop (lines 141-144) in a program started without
\* arguments on a colour device: both callbacks registered, the grabber
\* started, the viewer open.
Streaming ==
  /\ pc_m = "poll"
  /\ argv = <<>>
  /\ rgb = TRUE
  /\ arg = ""
  /\ exit_code = NoExit
  /\ usage_lines = NoUsage
  /\ opened = {""}
  /\ point_type = "PointXYZRGB"
  /\ device_id_ = ""
  /\ registered = {"cloud_cb", "viz_cb"}
  /\ source = "started"
  /\ starts = 1
  /\ stops = 0
  /\ viewer = "running"

\* The constructor, lines 74-77: every smart pointer is null, new_cloud_ false.
Constructed ==
  /\ mtx_ = "free"
  /\ cloud_ = NullCloud
  /\ mesh_ = NullMesh
  /\ vertices_ = "null"
  /\ new_cloud_ = FALSE
  /\ shapes = {}
  /\ pc_c = "idle"
  /\ cloud = NullCloud
  /\ was_pending = FALSE
  /\ mesh_entry = NullMesh
  /\ pc_v = "idle"
  /\ temp_cloud = NullCloud
  /\ swap_tmp = NullCloud
  /\ nframes = 0
  /\ pend = {}
  /\ seen = {}
  /\ dropped = {}
  /\ meshed = {}
  /\ rendered = {}
  /\ rerendered = {}

\* The handlers start from the constructed object while run () polls.
Init ==
  /\ Constructed
  /\ FpsInit
  /\ Streaming

----------------------------------------------------------------------------
\* cloud_cb, the grabber thread.

\* Line 82: the grabber delivers frame f and cloud_cb acquires mtx_.
Deliver(f) ==
  /\ pc_c = "idle"
  /\ mtx_ = "free"
  /\ mtx_' = "capture"
  /\ cloud' = f
  /\ mesh_entry' = mesh_
  /\ pc_c' = "check"
  /\ UNCHANGED <<fps, prog, shown, shared, was_pending, render, history>>

\* Line 82 for the next frame of the stream.
CloudCbLock ==
  /\ nframes < MaxFrames
  /\ nframes' = nframes + 1
  /\ Deliver(nframes + 1)

\* Line 82 once the modelled frame ids are used up: the stream goes on, and
\* every further frame is identified with frame MaxFrames.
CloudCbLockAgain ==
  /\ nframes = MaxFrames
  /\ nframes' = nframes
  /\ Deliver(MaxFrames)

\* cloud_cb without the test of line 85: every frame is reconstructed.
CloudCbCheckAlways ==
  /\ pc_c = "check"
  /\ was_pending' = new_cloud_
  /\ pc_c' = "reset"
  /\ dropped' = IF new_cloud_ THEN dropped \cup {cloud} ELSE dropped
  /\ UNCHANGED <<fps, prog, shown, mtx_, shared, cloud, mesh_entry, nframes, render, pend, seen>>

\* Line 85: if (!new_cloud_).
CloudCbCheck ==
  /\ pc_c = "check"
  /\ was_pending' = new_cloud_
  /\ pc_c' = IF new_cloud_ THEN "store" ELSE "reset"
  /\ dropped' = IF new_cloud_ THEN dropped \cup {cloud} ELSE dropped
  /\ UNCHANGED <<fps, prog, shown, mtx_, shared, cloud, mesh_entry, nframes, render, pend, seen>>

\* Lines 87-88 with line 99 moved up: the flag is raised before the mesh
\* is built.
CloudCbResetFlagFirst ==
  /\ pc_c = "reset"
  /\ mesh_' = EmptyMesh
  /\ vertices_' = "empty"
  /\ new_cloud_' = TRUE
  /\ pc_c' = "recon"
  /\ UNCHANGED <<fps, prog, shown, mtx_, cloud_, cloud, was_pending, mesh_entry, nframes, render,
                 history>>

\* Lines 87-88: mesh_ and vertices_ are reset to new, empty objects.
CloudCbReset ==
  /\ pc_c = "reset"
  /\ mesh_' = EmptyMesh
  /\ vertices_' = "empty"
  /\ pc_c' = "recon"
  /\ UNCHANGED <<fps, prog, shown, mtx_, cloud_, new_cloud_, cloud, was_pending, mesh_entry,
                 nframes, render, history>>

\* Lines 90-95: ofm.setInputCloud (cloud); ofm.reconstruct (*mesh_).
CloudCbReconstruct ==
  /\ pc_c = "recon"
  /\ mesh_' = Reconstruct(cloud)
  /\ meshed' = meshed \cup {Reconstruct(cloud)}
  /\ pc_c' = "store"
  /\ UNCHANGED <<fps, prog, rendered, rerendered, mtx_, cloud_, vertices_, new_cloud_, cloud, was_pending,
                 mesh_entry, nframes, render, history>>

\* Line 98: cloud_ = cloud.
CloudCbStore ==
  /\ pc_c = "store"
  /\ cloud_' = cloud
  /\ pc_c' = "flag"
  /\ UNCHANGED <<fps, prog, shown, mtx_, mesh_, vertices_, new_cloud_, cloud, was_pending,
                 mesh_entry, nframes, render, history>>

\* Line 99: new_cloud_ = true.
CloudCbFlag ==
  /\ pc_c = "flag"
  /\ new_cloud_' = TRUE
  /\ pend' = pend \cup {cloud}
  /\ pc_c' = "unlock"
  /\ UNCHANGED <<fps, prog, shown, mtx_, cloud_, mesh_, vertices_, cloud, was_pending,
                 mesh_entry, nframes, render, seen, dropped>>

\* cloud_cb returning with mtx_ still held.
CloudCbUnlockKeepsLock ==
  /\ pc_c = "unlock"
  /\ pc_c' = "idle"
  /\ UNCHANGED <<fps, prog, shown, mtx_, shared, cloud, was_pending, mesh_entry, nframes, render,
                 history>>

\* Line 100: the scoped_lock is destroyed and cloud_cb returns.
CloudCbUnlock ==
  /\ pc_c = "unlock"
  /\ mtx_' = "free"
  /\ pc_c' = "idle"
  /\ UNCHANGED <<fps, prog, shown, shared, cloud, was_pending, mesh_entry, nframes, render,
                 history>>

\* The steps of cloud_cb made while it holds mtx_.
CloudCbBody ==
  \/ CloudCbCheck
  \/ CloudCbReset
  \/ CloudCbReconstruct
  \/ CloudCbStore
  \/ CloudCbFlag
  \/ CloudCbUnlock

----------------------------------------------------------------------------
\* viz_cb, the visualization thread.

\* viz_cb taking mtx_ before the test of line 105.
VizCheckLocked ==
  /\ pc_v = "idle"
  /\ mtx_ = "free"
  /\ mtx_' = "viz"
  /\ pc_v' = IF new_cloud_ THEN "swap_read" ELSE "sleep"
  /\ seen' = IF new_cloud_ THEN pend ELSE seen
  /\ UNCHANGED <<fps, prog, shown, shared, capture, temp_cloud, swap_tmp, shapes, pend, dropped>>

\* viz_cb without the test of line 105: it always goes on to render.
VizCheckAlways ==
  /\ pc_v = "idle"
  /\ pc_v' = "swap_read"
  /\ seen' = pend
  /\ UNCHANGED <<fps, prog, shown, mtx_, shared, capture, temp_cloud, swap_tmp,
                 shapes, pend, dropped>>

\* Line 105: if (!new_cloud_), read without holding mtx_.
VizCheck ==
  /\ pc_v = "idle"
  /\ pc_v' = IF new_cloud_ THEN "swap_read" ELSE "sleep"
  /\ seen' = IF new_cloud_ THEN pend ELSE seen
  /\ UNCHANGED <<fps, prog, shown, mtx_, shared, capture, temp_cloud, swap_tmp, shapes, pend,
                 dropped>>

\* The idle path clearing the flag on its way out.
VizSleepClears ==
  /\ pc_v = "sleep"
  /\ new_cloud_' = FALSE
  /\ pc_v' = "idle"
  /\ UNCHANGED <<fps, prog, shown, mtx_, cloud_, mesh_, vertices_, capture, temp_cloud, swap_tmp,
                 shapes, history>>

\* Lines 107-108: sleep one millisecond and return.
VizSleep ==
  /\ pc_v = "sleep"
  /\ pc_v' = "idle"
  /\ UNCHANGED <<fps, prog, shown, mtx_, shared, capture, temp_cloud, swap_tmp, shapes, history>>

\* Line 111, first half of temp_cloud.swap (cloud_): cloud_ is read.
VizSwapRead ==
  /\ pc_v = "swap_read"
  /\ swap_tmp' = cloud_
  /\ pc_v' = "swap_write"
  /\ UNCHANGED <<fps, prog, shown, mtx_, shared, capture, temp_cloud, shapes, history>>

\* Line 111, second half: cloud_ takes the old temp_cloud (null, line 110)
\* and temp_cloud takes the value read.
VizSwapWrite ==
  /\ pc_v = "swap_write"
  /\ cloud_' = temp_cloud
  /\ temp_cloud' = swap_tmp
  /\ pc_v' = "lock"
  /\ UNCHANGED <<fps, prog, shown, mtx_, mesh_, vertices_, new_cloud_, capture, swap_tmp, shapes,
                 history>>

\* Line 114: boost::mutex::scoped_lock lock (mtx_).
VizLock ==
  /\ pc_v = "lock"
  /\ mtx_ = "free"
  /\ mtx_' = "viz"
  /\ pc_v' = "remove"
  /\ UNCHANGED <<fps, prog, shown, shared, capture, temp_cloud, swap_tmp, shapes, history>>

\* viz_cb without line 119: the old surface is left in the viewer.
VizRemoveShapeSkipped ==
  /\ pc_v = "remove"
  /\ pc_v' = "add"
  /\ UNCHANGED <<fps, prog, shown, mtx_, shared, capture, temp_cloud, swap_tmp,
                 shapes, history>>

\* Line 119: viz.removeShape ("surface").
VizRemoveShape ==
  /\ pc_v = "remove"
  /\ shapes' = RemoveShape(shapes, "surface")
  /\ pc_v' = "add"
  /\ UNCHANGED <<fps, prog, shown, mtx_, shared, capture, temp_cloud, swap_tmp, history>>

\* Line 121 showing a mesh of the frame taken by the swap (the call of
\* line 120) instead of *mesh_.
VizAddPolygonMeshOfTemp ==
  /\ pc_v = "add"
  /\ shapes' = AddPolygonMesh(shapes, Reconstruct(temp_cloud), "surface")
  /\ rendered' = rendered \cup {Reconstruct(temp_cloud)}
  /\ rerendered' = IF Reconstruct(temp_cloud) \in rendered THEN rerendered \cup {Reconstruct(temp_cloud)}
                                         ELSE rerendered
  /\ pc_v' = "setprop"
  /\ UNCHANGED <<fps, prog, meshed, mtx_, shared, capture, temp_cloud, swap_tmp, history>>

\* Line 121: viz.addPolygonMesh (*mesh_, "surface").
VizAddPolygonMesh ==
  /\ pc_v = "add"
  /\ shapes' = AddPolygonMesh(shapes, mesh_, "surface")
  /\ rendered' = rendered \cup {mesh_}
  /\ rerendered' = IF mesh_ \in rendered THEN rerendered \cup {mesh_}
                                         ELSE rerendered
  /\ pc_v' = "setprop"
  /\ UNCHANGED <<fps, prog, meshed, mtx_, shared, capture, temp_cloud, swap_tmp, history>>

\* Line 124: viz.setShapeRenderingProperties (..., WIREFRAME, "surface").
VizSetWireframe ==
  /\ pc_v = "setprop"
  /\ shapes' = SetWireframe(shapes, "surface")
  /\ pc_v' = "clear"
  /\ UNCHANGED <<fps, prog, shown, mtx_, shared, capture, temp_cloud, swap_tmp, history>>

\* viz_cb without line 125.
VizClearForgets ==
  /\ pc_v = "clear"
  /\ pc_v' = "unlock"
  /\ UNCHANGED <<fps, prog, shown, mtx_, shared, capture, temp_cloud, swap_tmp, shapes, history>>

\* Line 125: new_cloud_ = false.
VizClear ==
  /\ pc_v = "clear"
  /\ new_cloud_' = FALSE
  /\ pend' = {}
  /\ pc_v' = "unlock"
  /\ UNCHANGED <<fps, prog, shown, mtx_, cloud_, mesh_, vertices_, capture, temp_cloud, swap_tmp,
                 shapes, seen, dropped>>

\* Lines 126-127: the scoped_lock is destroyed, then temp_cloud, and viz_cb
\* returns.
VizUnlock ==
  /\ pc_v = "unlock"
  /\ mtx_' = "free"
  /\ temp_cloud' = NullCloud
  /\ swap_tmp' = NullCloud
  /\ pc_v' = "idle"
  /\ UNCHANGED <<fps, prog, shown, shared, capture, shapes, history>>

\* The visualization thread calls viz_cb over and over.
VizNext ==
  \/ VizCheck
  \/ VizSleep
  \/ VizSwapRead
  \/ VizSwapWrite
  \/ VizLock
  \/ VizRemoveShape
  \/ VizAddPolygonMesh
  \/ VizSetWireframe
  \/ VizClear
  \/ VizUnlock

----------------------------------------------------------------------------
Next ==
  \/ CloudCbLock
  \/ CloudCbBody
  \/ VizNext

Spec == Init /\ [][Next]_vars

\* The grabber streams without end; a thread that holds mtx_ goes on to
\* release it, and the visualization thread goes on calling viz_cb.  Nothing
\* makes boost::mutex hand the lock to a waiting thread, so the acquisitions
\* are only weakly fair.
LiveNext ==
  \/ Next
  \/ CloudCbLockAgain

LiveSpec ==
  /\ Init
  /\ [][LiveNext]_vars
  /\ WF_vars(CloudCbBody)
  /\ WF_vars(VizNext)

----------------------------------------------------------------------------
\* FPS_CALC, the frame-rate counter of lines 52-64.

\* Invocations of FPS_CALC followed per call site.
MaxCalls == 201

\* FPS_CALC with the test written count++ == 100: the report comes one
\* invocation late.
FPS_CALC_PostIncrement(what) ==
  /\ fps_calls[what] < MaxCalls
  /\ fps_calls' = [fps_calls EXCEPT ![what] = @ + 1]
  /\ IF fps_count[what] = ReportEvery
       THEN /\ fps_reports' = [fps_reports EXCEPT ![what] = @ + 1]
            /\ fps_count' = [fps_count EXCEPT ![what] = 0]
       ELSE /\ fps_reports' = fps_reports
            /\ fps_count' = [fps_count EXCEPT ![what] = @ + 1]
  /\ UNCHANGED <<handoff, prog>>

\* Lines 55-63: ++count; at 100 the rate is printed and count goes back to 0.
\* (count is unsigned, but it never passes 100, so it does not wrap; the
\* times last and now only enter the number printed.)
FPS_CALC(what) ==
  /\ fps_calls[what] < MaxCalls
  /\ fps_calls' = [fps_calls EXCEPT ![what] = @ + 1]
  /\ IF fps_count[what] + 1 = ReportEvery
       THEN /\ fps_reports' = [fps_reports EXCEPT ![what] = @ + 1]
            /\ fps_count' = [fps_count EXCEPT ![what] = 0]
       ELSE /\ fps_reports' = fps_reports
            /\ fps_count' = [fps_count EXCEPT ![what] = @ + 1]
  /\ UNCHANGED <<handoff, prog>>

\* Line 83: FPS_CALC ("computation"), once per call of cloud_cb.
CloudCbFps == FPS_CALC("computation")

\* Line 115: FPS_CALC ("visualization"), once per consuming call of viz_cb.
VizFps == FPS_CALC("visualization")

FpsNext ==
  \/ CloudCbFps
  \/ VizFps

FpsSpec == Init /\ [][FpsNext]_vars

----------------------------------------------------------------------------
\* main and OpenNIFastMesh::run, the main thread.

\* Devices usage () may find connected.
MaxDevices == 2

\* A device_id_ that was never set.
NoDevice == "<unset>"

\* First arguments tried: the two help switches, near misses, a device id.
ArgValues == {"--help", "-h", "", "-H", "#1"}

\* Command lines: no argument, one argument, a help switch in second place.
Argvs == {<<>>} \cup {<<a>> : a \in ArgValues} \cup {<<"#1", "--help">>}

\* The process at the entry of main.  The members of the OpenNIFastMesh
\* object have their constructed values throughout; no handler runs before
\* run () has registered it.
ProgInit ==
  /\ Constructed
  /\ FpsInit
  /\ pc_m = "main"
  /\ argv \in Argvs
  /\ rgb \in BOOLEAN
  /\ arg = ""
  /\ exit_code = NoExit
  /\ usage_lines = NoUsage
  /\ opened = {}
  /\ point_type = "none"
  /\ device_id_ = NoDevice
  /\ registered = {}
  /\ source = "none"
  /\ starts = 0
  /\ stops = 0
  /\ viewer = "none"

\* Line 188 testing for "--help" only.
MainParseLongOnly ==
  /\ pc_m = "main"
  /\ arg' = IF Len(argv) > 0 THEN argv[1] ELSE ""
  /\ pc_m' = IF arg' = "--help" THEN "usage" ELSE "probe"
  /\ UNCHANGED <<handoff, fps, argv, rgb, exit_code, usage_lines, opened,
                 point_type, device_id_, registered, source, starts, stops,
                 viewer>>

\* Lines 184-188: arg is argv[1] if there is one; is it "--help" or "-h"?
MainParse ==
  /\ pc_m = "main"
  /\ arg' = IF Len(argv) > 0 THEN argv[1] ELSE ""
  /\ pc_m' = IF arg' = "--help" \/ arg' = "-h" THEN "usage" ELSE "probe"
  /\ UNCHANGED <<handoff, fps, argv, rgb, exit_code, usage_lines, opened,
                 point_type, device_id_, registered, source, starts, stops,
                 viewer>>

\* Lines 190-191 and usage (lines 160-179): one line per connected device,
\* or "No devices connected.", then return 1.
MainUsage ==
  /\ pc_m = "usage"
  /\ \E n \in 0 .. MaxDevices : usage_lines' = n
  /\ exit_code' = 1
  /\ pc_m' = "exited"
  /\ UNCHANGED <<handoff, fps, argv, rgb, arg, opened, point_type, device_id_,
                 registered, source, starts, stops, viewer>>

\* Lines 194-197 and 201-203: a grabber is opened with "" and asked whether it
\* provides the rgb callback; that alone selects the point type.
MainProbe ==
  /\ pc_m = "probe"
  /\ opened' = opened \cup {""}
  /\ point_type' = IF rgb THEN "PointXYZRGB" ELSE "PointXYZ"
  /\ pc_m' = "construct"
  /\ UNCHANGED <<handoff, fps, argv, rgb, arg, exit_code, usage_lines,
                 device_id_, registered, source, starts, stops, viewer>>

\* Lines 198 and 204 passing arg on as the device id.
MainConstructWithArg ==
  /\ pc_m = "construct"
  /\ device_id_' = arg
  /\ viewer' = "running"
  /\ pc_m' = "new_grabber"
  /\ UNCHANGED <<handoff, fps, argv, rgb, arg, exit_code, usage_lines, opened,
                 point_type, registered, source, starts, stops>>

\* Lines 198 and 204: OpenNIFastMesh v (""); the constructor (line 75) opens
\* the viewer and keeps the device id.
MainConstruct ==
  /\ pc_m = "construct"
  /\ device_id_' = ""
  /\ viewer' = "running"
  /\ pc_m' = "new_grabber"
  /\ UNCHANGED <<handoff, fps, argv, rgb, arg, exit_code, usage_lines, opened,
                 point_type, registered, source, starts, stops>>

\* Line 132: interface = new pcl::OpenNIGrabber (device_id_).
RunNewGrabber ==
  /\ pc_m = "new_grabber"
  /\ opened' = opened \cup {device_id_}
  /\ source' = "created"
  /\ pc_m' = "register"
  /\ UNCHANGED <<handoff, fps, argv, rgb, arg, exit_code, usage_lines,
                 point_type, device_id_, registered, starts, stops, viewer>>

\* Lines 134-135: interface->registerCallback (cloud_cb).
RunRegisterCloudCb ==
  /\ pc_m = "register"
  /\ registered' = registered \cup {"cloud_cb"}
  /\ pc_m' = "run_viz"
  /\ UNCHANGED <<handoff, fps, argv, rgb, arg, exit_code, usage_lines, opened,
                 point_type, device_id_, source, starts, stops, viewer>>

\* Line 137: viewer.runOnVisualizationThread (viz_cb).
RunRegisterVizCb ==
  /\ pc_m = "run_viz"
  /\ registered' = registered \cup {"viz_cb"}
  /\ pc_m' = "start"
  /\ UNCHANGED <<handoff, fps, argv, rgb, arg, exit_code, usage_lines, opened,
                 point_type, device_id_, source, starts, stops, viewer>>

\* Line 139: interface->start ().
RunStart ==
  /\ pc_m = "start"
  /\ source' = "started"
  /\ starts' = starts + 1
  /\ pc_m' = "poll"
  /\ UNCHANGED <<handoff, fps, argv, rgb, arg, exit_code, usage_lines, opened,
                 point_type, device_id_, registered, stops, viewer>>

\* Line 141 leaving the loop whatever the viewer says.
RunPollOnce ==
  /\ pc_m = "poll"
  /\ pc_m' = "stop"
  /\ UNCHANGED <<handoff, fps, argv, rgb, arg, exit_code, usage_lines, opened,
                 point_type, device_id_, registered, source, starts, stops,
                 viewer>>

\* Line 141: while (!viewer.wasStopped ()).
RunPoll ==
  /\ pc_m = "poll"
  /\ pc_m' = IF viewer = "stopped" THEN "stop" ELSE "sleep"
  /\ UNCHANGED <<handoff, fps, argv, rgb, arg, exit_code, usage_lines, opened,
                 point_type, device_id_, registered, source, starts, stops,
                 viewer>>

\* Line 143: sleep one millisecond.
RunSleep ==
  /\ pc_m = "sleep"
  /\ pc_m' = "poll"
  /\ UNCHANGED <<handoff, fps, argv, rgb, arg, exit_code, usage_lines, opened,
                 point_type, device_id_, registered, source, starts, stops,
                 viewer>>

\* Line 146: interface->stop ().
RunStop ==
  /\ pc_m = "stop"
  /\ source' = "stopped"
  /\ stops' = stops + 1
  /\ pc_m' = "return"
  /\ UNCHANGED <<handoff, fps, argv, rgb, arg, exit_code, usage_lines, opened,
                 point_type, device_id_, registered, starts, viewer>>

\* Line 147 and lines 199-207: run returns and main returns 0.
MainReturn ==
  /\ pc_m = "return"
  /\ exit_code' = 0
  /\ pc_m' = "exited"
  /\ UNCHANGED <<handoff, fps, argv, rgb, arg, usage_lines, opened, point_type,
                 device_id_, registered, source, starts, stops, viewer>>

\* The steps of the main thread.
MainNext ==
  \/ MainParse
  \/ MainUsage
  \/ MainProbe
  \/ MainConstruct
  \/ RunNewGrabber
  \/ RunRegisterCloudCb
  \/ RunRegisterVizCb
  \/ RunStart
  \/ RunPoll
  \/ RunSleep
  \/ RunStop
  \/ MainReturn

\* The user closes the viewer window: wasStopped () is true from then on.
ViewerStopped ==
  /\ viewer = "running"
  /\ viewer' = "stopped"
  /\ UNCHANGED <<handoff, fps, pc_m, argv, rgb, arg, exit_code, usage_lines,
                 opened, point_type, device_id_, registered, source, starts,
                 stops>>

\* The started grabber delivers a frame to the registered cloud_cb.
GrabberDelivers ==
  /\ pc_m # "exited"
  /\ source = "started"
  /\ "cloud_cb" \in registered
  /\ CloudCbLock

\* A cloud_cb that was entered runs on.
GrabberCallback ==
  /\ pc_m # "exited"
  /\ CloudCbBody

\* The open viewer calls the registered viz_cb; a call that was entered runs
\* on.
ViewerCallback ==
  /\ pc_m # "exited"
  /\ "viz_cb" \in registered
  /\ viewer = "running" \/ pc_v # "idle"
  /\ VizNext

ProgNext ==
  \/ MainNext
  \/ ViewerStopped
  \/ GrabberDelivers
  \/ GrabberCallback
  \/ ViewerCallback

\* The main thread is scheduled again and again; nothing makes the user close
\* the window or the grabber deliver.
ProgSpec ==
  /\ ProgInit
  /\ [][ProgNext]_vars
  /\ WF_vars(MainNext)

TypeOK ==
  /\ mtx_ \in {"free", "capture", "viz"}
  /\ cloud_ \in Frames \cup {NullCloud}
  /\ mesh_ \in {NullMesh, EmptyMesh} \cup {Reconstruct(f) : f \in Frames}
  /\ vertices_ \in {"null", "empty"}
  /\ new_cloud_ \in BOOLEAN
  /\ pc_c \in {"idle", "check", "reset", "recon", "store", "flag", "unlock"}
  /\ pc_v \in {"idle", "sleep", "swap_read", "swap_write", "lock", "remove",
               "add", "setprop", "clear", "unlock"}
  /\ cloud \in Frames \cup {NullCloud}
  /\ temp_cloud \in Frames \cup {NullCloud}
  /\ swap_tmp \in Frames \cup {NullCloud}
  /\ nframes \in 0 .. MaxFrames
  /\ pend \subseteq Frames
  /\ seen \subseteq Frames
  /\ dropped \subseteq Frames
  /\ meshed \subseteq {Reconstruct(f) : f \in Frames}
  /\ rerendered \subseteq rendered
  /\ fps_count \in [Sites -> 0 .. ReportEvery]
  /\ fps_reports \in [Sites -> Nat]
  /\ fps_calls \in [Sites -> 0 .. MaxCalls]
  /\ pc_m \in {"main", "usage", "probe", "construct", "new_grabber",
               "register", "run_viz", "start", "poll", "sleep", "stop",
               "return", "exited"}
  /\ argv \in Argvs
  /\ rgb \in BOOLEAN
  /\ arg \in ArgValues
  /\ exit_code \in {NoExit, 0, 1}
  /\ usage_lines \in {NoUsage} \cup 0 .. MaxDevices
  /\ opened \subseteq ArgValues
  /\ point_type \in {"none", "PointXYZ", "PointXYZRGB"}
  /\ device_id_ \in ArgValues \cup {NoDevice}
  /\ registered \subseteq {"cloud_cb", "viz_cb"}
  /\ source \in {"none", "created", "started", "stopped"}
  /\ starts \in 0 .. 1
  /\ stops \in 0 .. 1
  /\ viewer \in {"none", "running", "stopped"}

----------------------------------------------------------------------------
\* The meshes of the shapes named "surface" the viewer shows.
DisplayedMeshes == {s.mesh : s \in Surfaces}

\* viz_cb has executed line 125 and is about to release mtx_ and return.
VizReturning == pc_v = "unlock"

\* C1 as claimed: when a consuming viz_cb returns, the surface shown is the
\* mesh of the LAST frame captured before the call (latest-wins), and the
\* flag is down, so that the captures give exactly one render.
C1_LatestWins ==
  VizReturning =>
    /\ seen # {}
    /\ DisplayedMeshes = {Reconstruct(Max(seen))}
    /\ ~new_cloud_

\* C1 as amended: when a consuming viz_cb returns, the surface shown is the
\* mesh of the FIRST frame captured since new_cloud_ was last cleared, and the
\* flag is down, so that the captures give exactly one render.
C1_FirstPendingWins ==
  VizReturning =>
    /\ seen # {}
    /\ DisplayedMeshes = {Reconstruct(Min(seen))}
    /\ ~new_cloud_

\* Several captures completed before the render that is now returning.
C1_Witness == VizReturning /\ Cardinality(seen) >= 2

VizObservedPending == pc_v = "swap_read"

\* C3 as claimed: when viz_cb has seen new_cloud_ true, cloud_ is not null,
\* mesh_ is a reconstructed mesh, and mesh_ is the mesh of the frame in cloud_.
C3_ValidPair ==
  VizObservedPending =>
    /\ cloud_ # NullCloud
    /\ mesh_.kind = "mesh"
    /\ mesh_ = Reconstruct(cloud_)

\* C3 as amended: when viz_cb has seen new_cloud_ true, cloud_ is not null,
\* mesh_ is a reconstructed mesh, and mesh_ is the mesh of the first frame
\* captured since new_cloud_ was last cleared; cloud_ is that frame or a
\* later one.
C3_FirstPendingPair ==
  VizObservedPending =>
    /\ cloud_ # NullCloud
    /\ mesh_.kind = "mesh"
    /\ seen # {}
    /\ mesh_ = Reconstruct(Min(seen))
    /\ cloud_ >= Min(seen)

\* viz_cb has seen the flag while cloud_ holds a later frame than mesh_.
C3_Witness ==
  /\ VizObservedPending
  /\ seen # {}
  /\ cloud_ > Min(seen)

\* C4 as claimed: a handler that is about to read or write cloud_, mesh_ or
\* new_cloud_ holds mtx_.
C4_AllAccessLocked ==
  /\ pc_c \in {"check", "reset", "recon", "store", "flag"} => mtx_ = "capture"
  /\ pc_v \in {"swap_read", "swap_write", "add", "clear"} => mtx_ = "viz"

\* A step of viz_cb on its idle path: the test of line 105 reading false, or
\* the return of line 108.
VizIdleStep ==
  \/ pc_v = "idle" /\ pc_v' # "idle" /\ ~new_cloud_
  \/ pc_v = "sleep" /\ pc_v' # "sleep"

\* C5: a viz_cb that finds new_cloud_ false changes neither the shapes shown
\* nor cloud_, mesh_, new_cloud_; it does not take mtx_, and it goes from the
\* test to the sleep and back without rendering.
C5_IdleRender ==
  [][ /\ VizIdleStep => /\ UNCHANGED <<shapes, shared, mtx_>>
                        /\ pc_v' \in {"idle", "sleep"}
      /\ pc_v = "sleep" => mtx_ # "viz"
    ]_vars

\* viz_cb sleeps on its idle path while a surface of an earlier render is shown.
C5_Witness == pc_v = "sleep" /\ Surfaces # {}

\* C6: no mesh is ever built from a frame delivered while new_cloud_ was true,
\* and no shape ever shows one.
C6_DroppedNeverMeshed ==
  \A f \in dropped :
    /\ mesh_ # Reconstruct(f)
    /\ \A s \in shapes : s.mesh # Reconstruct(f)

\* A frame was dropped and a later frame has been rendered since.
C6_Witness ==
  \E f \in dropped : \E s \in shapes : s.mesh.kind = "mesh" /\ s.mesh.of > f

\* C7 as claimed: when cloud_cb is about to return, cloud_ is the frame it was
\* given and new_cloud_ is true; mesh_ is the mesh of that frame if new_cloud_
\* was false at line 85, and is what it was on entry otherwise.
C7_CaptureContract ==
  pc_c = "unlock" =>
    /\ cloud_ = cloud
    /\ new_cloud_
    /\ mesh_ = IF was_pending THEN mesh_entry ELSE Reconstruct(cloud)

\* C8: new_cloud_ starts false; it is raised only by line 99 of cloud_cb and
\* lowered only by line 125 of viz_cb; line 99 always leaves it true and line
\* 125 always leaves it false; cloud_cb never lowers it, viz_cb never raises it.
C8_TwoStateMachine ==
  /\ ~new_cloud_
  /\ [][ /\ (~new_cloud_ /\ new_cloud_') => (pc_c = "flag" /\ pc_c' = "unlock")
         /\ (new_cloud_ /\ ~new_cloud_') => (pc_v = "clear" /\ pc_v' = "unlock")
         /\ (pc_c = "flag" /\ pc_c' # pc_c) => new_cloud_'
         /\ (pc_v = "clear" /\ pc_v' # pc_v) => ~new_cloud_'
         /\ (pc_c' # pc_c /\ new_cloud_) => new_cloud_'
         /\ (pc_v' # pc_v /\ ~new_cloud_) => ~new_cloud_'
       ]_vars

\* The flag has been raised, kept up by a second capture, and lowered.
C8_Witness == dropped # {} /\ ~new_cloud_

\* C9 as claimed: when new_cloud_ is false and neither handler is running,
\* cloud_ is null.
C9_FrameReleased ==
  (~new_cloud_ /\ pc_c = "idle" /\ pc_v = "idle") => cloud_ = NullCloud

\* C10 as claimed: with weakly fair threads, a raised new_cloud_ is
\* eventually lowered.
C10_PendingEventuallyRendered == new_cloud_ ~> ~new_cloud_

\* C10 as amended: with weakly fair threads and a mutex that in the end
\* lets in a viz_cb that keeps waiting for it (strong fairness of line 114),
\* a raised new_cloud_ is eventually lowered; and mtx_ is held only by a
\* handler inside its critical section, which weak fairness takes to its
\* release, so the handlers do not deadlock on it.
C10_RenderedIfLockFair ==
  /\ [](mtx_ = "capture" <=> pc_c \notin {"idle"})
  /\ [](mtx_ = "viz" <=> pc_v \in {"remove", "add", "setprop", "clear", "unlock"})
  /\ SF_vars(VizLock) => (new_cloud_ ~> ~new_cloud_)

\* viz_cb waits for mtx_ with the flag up while cloud_cb holds it.
C10_Witness == new_cloud_ /\ pc_v = "lock" /\ mtx_ = "capture"

\* C15: no mesh is shown twice: every mesh line 121 shows is a mesh line 95
\* built and was not shown before, so the renders are never more than the
\* reconstructions, and these never more than the captures.
C15_NoMeshRenderedTwice ==
  /\ rerendered = {}
  /\ rendered \subseteq meshed
  /\ Cardinality(rendered) <= Cardinality(meshed)
  /\ Cardinality(meshed) <= nframes

\* Two renders have been made, with a dropped frame along the way.
C15_Witness == Cardinality(rendered) >= 2 /\ dropped # {}

\* C16: when viz_cb is about to read mesh_ at line 121 it holds mtx_, cloud_cb
\* is not at lines 87-95, and mesh_ is the finished mesh of one
\* reconstruction; nothing else was ever shown.
C16_MeshExclusive ==
  /\ pc_v = "add" => /\ mtx_ = "viz"
                     /\ pc_c \notin {"reset", "recon"}
                     /\ mesh_.kind = "mesh"
                     /\ mesh_ \in meshed
  /\ \A m \in rendered : m.kind = "mesh" /\ m \in meshed

\* viz_cb is about to read mesh_, and a cloud_cb ran between its unlocked
\* test of line 105 and its lock of line 114.
C16_Witness ==
  /\ pc_v = "add"
  /\ cloud_ # NullCloud
  /\ cloud_ \notin seen

\* The shape a finished render leaves in the viewer.
WireframeOf(m) == [id |-> "surface", mesh |-> m, rep |-> "wireframe"]

\* C17: the viewer never holds two shapes named "surface"; when a consuming
\* viz_cb returns it holds exactly the wireframe of the mesh_ read under
\* mtx_; once a render was made there is one surface except between line 119
\* and line 121, and it is a wireframe except between line 121 and line 124.
C17_OneSurface ==
  /\ Cardinality(Surfaces) <= 1
  /\ VizReturning => Surfaces = {WireframeOf(mesh_)}
  /\ (rendered # {} /\ pc_v # "add") => Cardinality(Surfaces) = 1
  /\ pc_v # "setprop" => \A s \in Surfaces : s.rep = "wireframe"

\* A consuming viz_cb returns after it replaced the surface of an earlier one.
C17_Witness == VizReturning /\ Cardinality(rendered) >= 2

\* C12: at each call site, after n invocations of FPS_CALC floor(n/100)
\* reports have been printed, and count is n mod 100, so it is 0 after each
\* report and stays in 0..99; each site counts its own invocations only.
C12_FpsCounter ==
  \A w \in Sites :
    /\ fps_reports[w] = fps_calls[w] \div ReportEvery
    /\ fps_count[w] = fps_calls[w] % ReportEvery
    /\ fps_count[w] \in 0 .. ReportEvery - 1

\* One site has reported twice while the other is one invocation short of
\* its first report.
C12_Witness ==
  /\ fps_calls["computation"] = 2 * ReportEvery
  /\ fps_reports["computation"] = 2
  /\ fps_calls["visualization"] = ReportEvery - 1
  /\ fps_reports["visualization"] = 0

\* What holds of run () at every moment: the grabber is started only with
\* both callbacks registered, started and stopped at most once, stopped only
\* after a start and only once the viewer has reported stopped, which is also
\* the only way out of the loop of lines 141-144; a main that returns 0 has
\* stopped it.
ShutdownOrder ==
  /\ source \in {"started", "stopped"} => registered = {"cloud_cb", "viz_cb"}
  /\ starts = (IF source \in {"started", "stopped"} THEN 1 ELSE 0)
  /\ stops = (IF source = "stopped" THEN 1 ELSE 0)
  /\ source = "stopped" => viewer = "stopped"
  /\ pc_m \in {"stop", "return"} => viewer = "stopped"
  /\ pc_m \in {"poll", "sleep", "stop"} => source = "started"
  /\ (pc_m = "exited" /\ exit_code = 0) => source = "stopped"

\* C11: run () keeps to ShutdownOrder, and once the viewer is stopped run ()
\* eventually returns with the grabber stopped (once).
C11_ShutdownOrdering ==
  /\ []ShutdownOrder
  /\ (viewer = "stopped") ~> (pc_m = "exited" /\ source = "stopped" /\ stops = 1)

\* run () has returned after a session in which frames were rendered.
C11_Witness ==
  /\ pc_m = "exited"
  /\ source = "stopped"
  /\ rendered # {}

\* The first argument is one of the two help switches.
HelpAsked == Len(argv) > 0 /\ argv[1] \in {"--help", "-h"}

\* C13: with --help or -h as first argument no grabber and no viewer is ever
\* constructed or started, no callback registered, no handler ever runs, and
\* main ends with the usage printed and exit status 1.
C13_HelpExits ==
  HelpAsked =>
    /\ pc_m \in {"main", "usage", "exited"}
    /\ opened = {} /\ source = "none" /\ viewer = "none"
    /\ registered = {} /\ starts = 0
    /\ pc_c = "idle" /\ pc_v = "idle" /\ nframes = 0 /\ rendered = {}
    /\ exit_code # 0
    /\ pc_m = "exited" => (exit_code = 1 /\ usage_lines # NoUsage)

\* main has returned for the short switch.
C13_Witness == pc_m = "exited" /\ argv = <<"-h">>

====
